---------------------------- MODULE Spec2Model ----------------------------
(***************************************************************************)
(* A model of book_review_generator.py: the table parser, the reasoning    *)
(* stripper, the generation client, the review writer and the loop of      *)
(* main().  Texts, titles, paths and file contents are sequences of        *)
(* one-character strings, so that the regular expressions of the program   *)
(* are modelled by what they do to the characters.                         *)
(***************************************************************************)
EXTENDS Integers, Sequences, FiniteSets, TLC

VARIABLES
    dry_run,        \* args.dry_run
    no_overwrite,   \* args.no_overwrite
    env_key,        \* os.environ.get("api_key") yields a non-empty key
    typed_key,      \* the key typed at the prompt is non-empty
    input_exists,   \* os.path.exists(file_path) of the selected document
    input_books,    \* what parse_book_data returns for the selected document
    api_key,        \* main's api_key: TRUE when it holds a key
    books,          \* main's books
    i,              \* main's loop index, 1-based (the code's i is i - 1)
    pc,             \* the position of main()
    review,         \* main's review, between generate_review and save_review
    exc,            \* the exception that left main(), "none" while there is none
    fs,             \* the output files: path -> content, for the paths that exist
    dir_exists,     \* the output directory exists
    fs0,            \* fs when the run started
    dir0,           \* dir_exists when the run started
    outcome,        \* per record: "pending", "skipped", "written" or "failed"
    requests,       \* per record: the requests.post calls made for it
    slept,          \* per record: the time.sleep calls made for it
    returned,       \* per record: what generate_review returned (None before)
    last_response,  \* what requests.post came back with for the current record
    writes,         \* path -> the number of times save_review wrote it
    save_skips,     \* the number of times save_review took its skip branch
    call            \* the last call of a function checked on its own

vars == <<dry_run, no_overwrite, env_key, typed_key, input_exists, input_books,
          api_key, books, i, pc, review, exc, fs, dir_exists, fs0, dir0,
          outcome, requests, slept, returned, last_response, writes,
          save_skips, call>>

--------------------------------------------------------------------------
(* Bounds of the model.                                                    *)

\* the longest parsed record sequence of a run
MaxBooks == 2
\* the number of fragments a response text is put together from
MaxFrags == 5
\* the number of lines of an input document
MaxLines == 2
\* the writes of one path that are counted when save_review is called on its own
MaxWrites == 2

--------------------------------------------------------------------------
(* Sequences of characters.                                                *)

Min(S) == CHOOSE x \in S : \A y \in S : x <= y

\* the sequences over S of length at most n
SeqsUpTo(S, n) == UNION {[1..k -> S] : k \in 0..n}

RECURSIVE Concat(_)
\* the concatenation of a sequence of sequences
Concat(ss) == IF ss = <<>> THEN <<>> ELSE Head(ss) \o Concat(Tail(ss))

\* the first position >= from where tag occurs in text, 0 when there is none
FirstAt(text, tag, from) ==
    LET S == {k \in from..(Len(text) - Len(tag) + 1) :
                 SubSeq(text, k, k + Len(tag) - 1) = tag}
    IN  IF S = {} THEN 0 ELSE Min(S)

--------------------------------------------------------------------------
(* remove_think_tags: re.sub(r'<think>.*?</think>', '', content, DOTALL).  *)

OpenTag  == <<"<", "t", "h", "i", "n", "k", ">">>
CloseTag == <<"<", "/", "t", "h", "i", "n", "k", ">">>

RECURSIVE SubThink(_, _)
\* re.sub from position p on: the leftmost "<think>" that a "</think>"
\* follows, up to the first such "</think>" (.*? is lazy and DOTALL lets it
\* cross newlines), is dropped and the scan goes on after it
SubThink(text, p) ==
    LET s == FirstAt(text, OpenTag, p)
        e == IF s = 0 THEN 0 ELSE FirstAt(text, CloseTag, s + Len(OpenTag))
    IN  IF s = 0 \/ e = 0
        THEN SubSeq(text, p, Len(text))
        ELSE SubSeq(text, p, s - 1) \o SubThink(text, e + Len(CloseTag))

--------------------------------------------------------------------------
(* Python values, as far as the program handles them: None, str, int,      *)
(* list and dict (a decoded JSON body is made of these).                   *)

PyNone     == [k |-> "None"]
PyStr(s)   == [k |-> "str", s |-> s]
PyInt(n)   == [k |-> "int", n |-> n]
PyList(xs) == [k |-> "list", items |-> xs]
PyDict(d)  == [k |-> "dict", d |-> d]

\* bool(v), as `if not content` and `if review` take it
Truthy(v) ==
    CASE v.k = "None" -> FALSE
      [] v.k = "str"  -> v.s # <<>>
      [] v.k = "int"  -> v.n # 0
      [] v.k = "list" -> v.items # <<>>
      [] v.k = "dict" -> DOMAIN v.d # {}

\* the result of an expression: a value, or the exception it raises
Returned(v) == [ok |-> TRUE, v |-> v]
Raised(e)   == [ok |-> FALSE, e |-> e]

\* v[name], name a str
GetKey(v, name) ==
    IF v.k = "dict"
    THEN IF name \in DOMAIN v.d THEN Returned(v.d[name]) ELSE Raised("KeyError")
    ELSE Raised("TypeError")

\* v[n], n an int >= 0
GetIndex(v, n) ==
    CASE v.k = "list" -> IF n < Len(v.items) THEN Returned(v.items[n + 1])
                                              ELSE Raised("IndexError")
      [] v.k = "dict" -> Raised("KeyError")
      [] v.k = "str"  -> IF n < Len(v.s) THEN Returned(PyStr(<<v.s[n + 1]>>))
                                          ELSE Raised("IndexError")
      [] OTHER        -> Raised("TypeError")

\* result["choices"][0]["message"]["content"]
ContentOf(result) ==
    LET a == GetKey(result, "choices")
        b == IF a.ok THEN GetIndex(a.v, 0) ELSE a
        c == IF b.ok THEN GetKey(b.v, "message") ELSE b
    IN  IF c.ok THEN GetKey(c.v, "content") ELSE c

\* remove_think_tags: a falsy content is returned as it is, and re.sub
\* raises TypeError on a content that is not a str
remove_think_tags(content) ==
    IF ~Truthy(content) THEN Returned(content)
    ELSE IF content.k = "str" THEN Returned(PyStr(SubThink(content.s, 1)))
    ELSE Raised("TypeError")

--------------------------------------------------------------------------
(* Records, the remote endpoint's answers and generate_review.             *)

\* the titles the records of a run are drawn from
Titles == {<<"a">>, <<"a", "?">>, <<"b", " ", "c">>}

\* a parsed record with the given title
Book(title) ==
    [rank |-> <<"1">>, title |-> title, author |-> <<"w">>,
     original_title |-> <<"t">>, year |-> <<"2">>, translator |-> <<"x">>,
     publisher |-> <<"p">>, rating |-> <<"9">>, comment |-> <<"c">>]

\* the record sequences parse_book_data can hand to main()
BookSeqs == {[j \in DOMAIN ts |-> Book(ts[j])] : ts \in SeqsUpTo(Titles, MaxBooks)}

\* generate_dummy_review: the fixed template around the record's fields
generate_dummy_review(book) ==
    <<"[", "d", "r", "y", "]">> \o book.title \o book.rating \o book.author
        \o book.comment \o book.year \o book.title \o <<"\n">>

\* a decoded body of the expected shape around a content value
Completion(content) ==
    PyDict([choices |-> PyList(<<PyDict([message |-> PyDict([content |-> content])])>>)])

\* the content values of a body of the expected shape
Contents ==
    {PyStr(<<"o", "k">>), PyStr(<<>>),
     PyStr(OpenTag \o <<"r">> \o CloseTag),
     PyStr(OpenTag \o <<"r">> \o CloseTag \o <<"o", "k">>),
     PyNone, PyInt(5)}

\* bodies that lack a field on the way to the content
BodiesMissingField ==
    {PyDict(<<>>),
     PyDict([choices |-> PyList(<<>>)]),
     PyDict([choices |-> PyList(<<PyDict(<<>>)>>)]),
     PyDict([choices |-> PyList(<<PyDict([message |-> PyDict(<<>>)])>>)])}

\* bodies that hold a value of another type on the way to the content
BodiesOtherShape ==
    {PyList(<<>>),
     PyDict([choices |-> PyNone]),
     PyDict([choices |-> PyList(<<PyDict([message |-> PyStr(<<"o", "k">>)])>>)])}

Bodies == {Completion(c) : c \in Contents} \cup BodiesMissingField \cup BodiesOtherShape

\* what requests.post can come back with: an exception of the transport, or
\* a response with a status and a decoded body
Responses ==
    {[t |-> "ConnectionError"]}
    \cup {[t |-> "response", status |-> 200, body |-> b] : b \in Bodies}
    \cup {[t |-> "response", status |-> st, body |-> PyDict(<<>>)] : st \in {404, 503}}

\* response.raise_for_status() raises HTTPError
RaisesForStatus(resp) == 400 <= resp.status /\ resp.status < 600

\* a mutant: the handler of line 185 catches KeyError alone
generate_review_keyerror_only(book, key, dry, resp) ==
    IF dry THEN Returned(PyStr(generate_dummy_review(book)))
    ELSE IF resp.t = "ConnectionError" THEN Returned(PyNone)
    ELSE IF RaisesForStatus(resp) THEN Returned(PyNone)
    ELSE LET content == ContentOf(resp.body)
         IN  IF content.ok THEN remove_think_tags(content.v)
             ELSE IF content.e = "KeyError" THEN Returned(PyNone)
             ELSE content

\* generate_review, resp being what requests.post comes back with in a live
\* call
generate_review(book, key, dry, resp) ==
    IF dry THEN Returned(PyStr(generate_dummy_review(book)))
    ELSE IF resp.t = "ConnectionError" THEN Returned(PyNone)
    ELSE IF RaisesForStatus(resp) THEN Returned(PyNone)
    ELSE LET content == ContentOf(resp.body)
         IN  IF content.ok THEN remove_think_tags(content.v)
             ELSE IF content.e \in {"KeyError", "IndexError"} THEN Returned(PyNone)
             ELSE content

--------------------------------------------------------------------------
(* The review writer.                                                      *)

\* args.output_dir
OutputDir == <<"o", "u", "t">>

\* the characters re.sub(r'[\\/*?:"<>|]', '', title) removes
Illegal == {"\\", "/", "*", "?", ":", "\"", "<", ">", "|"}

RECURSIVE Sanitize(_)
\* the title without the illegal characters, its spaces made underscores
Sanitize(title) ==
    IF title = <<>> THEN <<>>
    ELSE LET c == Head(title)
         IN  (IF c \in Illegal THEN <<>> ELSE IF c = " " THEN <<"_">> ELSE <<c>>)
                 \o Sanitize(Tail(title))

\* get_review_path
get_review_path(book, output_dir) ==
    output_dir \o <<"/">> \o Sanitize(book.title) \o <<".", "m", "d">>

\* the paths the records of a run can have
AllPaths == {get_review_path(Book(t), OutputDir) : t \in Titles}

\* what save_review writes to the file
Document(book, text) ==
    <<"#", " ">> \o book.title \o <<"\n", "\n">>
        \o <<"A", ":", " ">> \o book.author \o <<" ", " ", "\n">>
        \o <<"R", ":", " ">> \o book.rating \o <<" ", " ", "\n", "\n">>
        \o text \o <<"\n">>

\* the content of a file that was there before the run
OldDoc == <<"o", "l", "d">>

\* files with path p holding content d
WriteFile(files, p, d) == [q \in DOMAIN files \cup {p} |-> IF q = p THEN d ELSE files[q]]

\* a mutant: a file that exists is never written, whatever overwrite is
save_review_keep_existing(book, text, output_dir, overwrite, files) ==
    LET file_path == get_review_path(book, output_dir)
    IN  IF file_path \in DOMAIN files
        THEN [files |-> files, path |-> file_path, skip |-> TRUE]
        ELSE [files |-> WriteFile(files, file_path, Document(book, text)),
              path |-> file_path, skip |-> FALSE]

\* save_review on the files of the output directory: the files after it,
\* the path it returns and whether it took its skip branch
save_review(book, text, output_dir, overwrite, files) ==
    LET file_path == get_review_path(book, output_dir)
    IN  IF file_path \in DOMAIN files /\ ~overwrite
        THEN [files |-> files, path |-> file_path, skip |-> TRUE]
        ELSE [files |-> WriteFile(files, file_path, Document(book, text)),
              path |-> file_path, skip |-> FALSE]

--------------------------------------------------------------------------
(* main().                                                                 *)

\* the values of the variables that only a direct call of a function uses
NoCall == [fn |-> "none"]

\* the output directories a run can start in: some of the paths hold an old
\* file, and the directory exists when it holds a file
StartFiles == {[p \in ps |-> OldDoc] : ps \in SUBSET AllPaths}

\* no request has been made for the current record
NoResponse == [t |-> "none"]

\* main() has not started
Init ==
    /\ dry_run \in BOOLEAN
    /\ no_overwrite \in BOOLEAN
    /\ env_key \in BOOLEAN
    /\ typed_key \in (IF ~dry_run /\ ~env_key THEN BOOLEAN ELSE {FALSE})
    /\ input_exists \in BOOLEAN
    /\ input_books \in (IF input_exists THEN BookSeqs ELSE {<<>>})
    /\ api_key = FALSE
    /\ books = <<>>
    /\ i = 0
    /\ pc = "credential"
    /\ review = PyNone
    /\ exc = "none"
    /\ fs \in StartFiles
    /\ dir_exists \in (IF DOMAIN fs = {} THEN BOOLEAN ELSE {TRUE})
    /\ fs0 = fs
    /\ dir0 = dir_exists
    /\ outcome = <<>>
    /\ requests = <<>>
    /\ slept = <<>>
    /\ returned = <<>>
    /\ last_response = NoResponse
    /\ writes = [p \in AllPaths |-> 0]
    /\ save_skips = 0
    /\ call = NoCall

\* a mutant: a live run goes on without a key
CheckCredential_no_exit ==
    /\ pc = "credential"
    /\ api_key' = (~dry_run /\ (env_key \/ typed_key))
    /\ pc' = "select"
    /\ UNCHANGED <<dry_run, no_overwrite, env_key, typed_key, input_exists,
                   input_books, books, i, review, exc, fs, dir_exists, fs0, dir0,
                   outcome, requests, slept, returned, last_response, writes,
                   save_skips, call>>

\* lines 226-234: the key of a live run, from the environment or the prompt
CheckCredential ==
    /\ pc = "credential"
    /\ api_key' = (~dry_run /\ (env_key \/ typed_key))
    /\ pc' = IF ~dry_run /\ ~env_key /\ ~typed_key THEN "exit" ELSE "select"
    /\ UNCHANGED <<dry_run, no_overwrite, env_key, typed_key, input_exists,
                   input_books, books, i, review, exc, fs, dir_exists, fs0, dir0,
                   outcome, requests, slept, returned, last_response, writes,
                   save_skips, call>>

\* lines 236-240: the selected document must exist
SelectFile ==
    /\ pc = "select"
    /\ pc' = IF input_exists THEN "parse" ELSE "exit"
    /\ UNCHANGED <<dry_run, no_overwrite, env_key, typed_key, input_exists,
                   input_books, api_key, books, i, review, exc, fs, dir_exists,
                   fs0, dir0, outcome, requests, slept, returned, last_response,
                   writes, save_skips, call>>

\* lines 242-256: the records of the document; none is fatal
ParseBooks ==
    /\ pc = "parse"
    /\ books' = input_books
    /\ IF input_books = <<>>
       THEN /\ pc' = "exit"
            /\ UNCHANGED <<i, outcome, requests, slept, returned>>
       ELSE /\ pc' = "loop"
            /\ i' = 1
            /\ outcome' = [j \in DOMAIN input_books |-> "pending"]
            /\ requests' = [j \in DOMAIN input_books |-> 0]
            /\ slept' = [j \in DOMAIN input_books |-> 0]
            /\ returned' = [j \in DOMAIN input_books |-> PyNone]
    /\ UNCHANGED <<dry_run, no_overwrite, env_key, typed_key, input_exists,
                   input_books, api_key, review, exc, fs, dir_exists, fs0, dir0,
                   last_response, writes, save_skips, call>>

\* a mutant: main() does not look for the review before it generates one
NextBook_no_precheck ==
    /\ pc = "loop"
    /\ pc' = IF i > Len(books) THEN "done" ELSE "pace"
    /\ last_response' = NoResponse
    /\ UNCHANGED <<dry_run, no_overwrite, env_key, typed_key, input_exists,
                   input_books, api_key, books, i, review, exc, fs, dir_exists,
                   fs0, dir0, outcome, requests, slept, returned, writes,
                   save_skips, call>>

\* lines 256-263 and 279: the next record, skipped when its review exists
\* and --no-overwrite is set; after the last record main() returns
NextBook ==
    /\ pc = "loop"
    /\ IF i > Len(books)
       THEN /\ pc' = "done"
            /\ UNCHANGED <<i, outcome>>
       ELSE IF get_review_path(books[i], OutputDir) \in DOMAIN fs /\ no_overwrite
       THEN /\ outcome' = [outcome EXCEPT ![i] = "skipped"]
            /\ i' = i + 1
            /\ pc' = "loop"
       ELSE /\ pc' = "pace"
            /\ UNCHANGED <<i, outcome>>
    /\ last_response' = NoResponse
    /\ UNCHANGED <<dry_run, no_overwrite, env_key, typed_key, input_exists,
                   input_books, api_key, books, review, exc, fs, dir_exists, fs0,
                   dir0, requests, slept, returned, writes, save_skips, call>>

\* lines 265-269: time.sleep(2) unless the record is the first of the
\* sequence or the run is a dry run
Pace ==
    /\ pc = "pace"
    /\ slept' = IF i > 1 /\ ~dry_run THEN [slept EXCEPT ![i] = @ + 1] ELSE slept
    /\ pc' = "generate"
    /\ UNCHANGED <<dry_run, no_overwrite, env_key, typed_key, input_exists,
                   input_books, api_key, books, i, review, exc, fs, dir_exists,
                   fs0, dir0, outcome, requests, returned, last_response, writes,
                   save_skips, call>>

\* line 272: generate_review; an exception it does not catch leaves main()
Generate ==
    /\ pc = "generate"
    /\ \E resp \in (IF dry_run THEN {NoResponse} ELSE Responses) :
         LET r == generate_review(books[i], api_key, dry_run, resp)
         IN  /\ requests' = IF dry_run THEN requests
                            ELSE [requests EXCEPT ![i] = @ + 1]
             /\ last_response' = resp
             /\ IF r.ok
                THEN /\ review' = r.v
                     /\ returned' = [returned EXCEPT ![i] = r.v]
                     /\ pc' = "save"
                     /\ exc' = exc
                ELSE /\ exc' = r.e
                     /\ pc' = "raised"
                     /\ UNCHANGED <<review, returned>>
    /\ UNCHANGED <<dry_run, no_overwrite, env_key, typed_key, input_exists,
                   input_books, api_key, books, i, fs, dir_exists, fs0, dir0,
                   outcome, slept, writes, save_skips, call>>

\* lines 273-277: save_review for a review that is truthy, else the record
\* has failed
Save ==
    /\ pc = "save"
    /\ IF Truthy(review)
       THEN LET w == save_review(books[i], review.s, OutputDir, ~no_overwrite, fs)
            IN  /\ fs' = w.files
                /\ dir_exists' = TRUE
                /\ writes' = IF w.skip THEN writes
                             ELSE [writes EXCEPT ![w.path] = @ + 1]
                /\ save_skips' = IF w.skip THEN save_skips + 1 ELSE save_skips
                /\ outcome' = [outcome EXCEPT ![i] = "written"]
       ELSE /\ outcome' = [outcome EXCEPT ![i] = "failed"]
            /\ UNCHANGED <<fs, dir_exists, writes, save_skips>>
    /\ i' = i + 1
    /\ pc' = "loop"
    /\ UNCHANGED <<dry_run, no_overwrite, env_key, typed_key, input_exists,
                   input_books, api_key, books, review, exc, fs0, dir0, requests,
                   slept, returned, last_response, call>>

Next ==
    \/ CheckCredential
    \/ SelectFile
    \/ ParseBooks
    \/ NextBook
    \/ Pace
    \/ Generate
    \/ Save

Spec == Init /\ [][Next]_vars

--------------------------------------------------------------------------
(* The claims about a run of main().                                       *)

Records == 1..Len(books)

\* the output path of record j
PathOf(j) == get_review_path(books[j], OutputDir)

\* main() has passed its fatal preconditions
InLoop == pc \in {"loop", "pace", "generate", "save", "done", "raised"}

\* the run is over: main() returned or an exception left it
RunOver == pc \in {"done", "raised", "exit"}

\* record j got a non-empty review text from generate_review
GotText(j) == Truthy(returned[j])

\* C1: once the fatal preconditions have passed, no exception leaves
\* main(): the records are visited in parse order, each visited record is
\* skipped, written or failed, and the run ends after the last record with
\* every record in one of the three states.
C1_NoRecordAbortsRun ==
    InLoop =>
        /\ pc # "raised"
        /\ exc = "none"
        /\ \A j \in Records :
              /\ j < i => outcome[j] \in {"skipped", "written", "failed"}
              /\ j >= i => outcome[j] = "pending"
        /\ pc = "done" => i = Len(books) + 1

\* the pacing delay was taken for record j
Delayed(j) == slept[j] > 0

\* record j is processed (not skipped) and a processed record precedes it
NotFirstProcessed(j) == \E k \in 1..(j - 1) : outcome[k] # "skipped"

\* C3: in a live run the pacing delay precedes a record's request exactly
\* when the record is not the first processed (non-skipped) record of the
\* run; no delay is taken in a dry run or for a skipped record.
C3_DelayExactlyAfterFirstProcessed ==
    InLoop =>
        \A j \in Records :
            /\ slept[j] <= 1
            /\ dry_run => ~Delayed(j)
            /\ outcome[j] = "skipped" => ~Delayed(j)
            /\ requests[j] > 0 => (Delayed(j) <=> NotFirstProcessed(j))

\* the remote call failed: a network error or a status that is not 2xx
CallFailed(resp) ==
    \/ resp.t = "ConnectionError"
    \/ resp.t = "response" /\ resp.status \notin 200..299

\* the body lacks one of the fields choices, [0], message, content
LacksField(resp) ==
    resp.t = "response" /\ resp.status \in 200..299 /\ resp.body \in BodiesMissingField

\* the body has the expected shape and nothing is left of its text once the
\* reasoning blocks are cut out
EmptyAfterStrip(resp) ==
    /\ resp.t = "response"
    /\ resp.status \in 200..299
    /\ resp.body \in {Completion(PyStr(<<>>)), Completion(PyStr(OpenTag \o <<"r">> \o CloseTag))}

NoReview(resp) == CallFailed(resp) \/ LacksField(resp) \/ EmptyAfterStrip(resp)

C5_OneRequestPerRecord ==
    /\ InLoop => \A j \in Records : requests[j] <= 1
    /\ (InLoop /\ dry_run) => \A j \in Records : requests[j] = 0
    /\ (InLoop /\ RunOver /\ ~dry_run) =>
           \A j \in Records :
               requests[j] = (IF outcome[j] = "skipped" THEN 0 ELSE 1)

\* one of the fatal preconditions fails
Fatal ==
    \/ ~input_exists
    \/ input_books = <<>>
    \/ ~dry_run /\ ~env_key /\ ~typed_key

\* nothing outside main() has been touched and no record has been visited
Untouched ==
    /\ fs = fs0
    /\ dir_exists = dir0
    /\ \A p \in AllPaths : writes[p] = 0
    /\ save_skips = 0
    /\ \A j \in DOMAIN outcome : outcome[j] = "pending"
    /\ \A j \in DOMAIN requests : requests[j] = 0
    /\ \A j \in DOMAIN slept : slept[j] = 0

\* C6: with the input document missing, no record parsed, or no credential
\* in a live run, the run ends before any record is processed and touches
\* nothing; in a dry run a missing credential is not fatal.
C6_FatalPreconditions ==
    /\ Fatal => ~InLoop /\ Untouched
    /\ pc = "exit" => Fatal /\ Untouched
    /\ ~Fatal => pc # "exit"
    /\ (dry_run /\ input_exists /\ input_books # <<>>) => pc # "exit"

\* a live run without a credential has ended, its document and records
\* being there, old files in the output directory
C6_Witness ==
    /\ pc = "exit"
    /\ ~dry_run /\ ~env_key /\ ~typed_key
    /\ input_exists /\ input_books # <<>>
    /\ DOMAIN fs # {}

\* the last processed record before position n that has path p and got a
\* non-empty text, 0 when there is none
LastWithText(p, n) ==
    LET S == {j \in 1..(n - 1) : j \in Records /\ PathOf(j) = p /\ GotText(j)
                                  /\ outcome[j] # "pending"}
    IN  IF S = {} THEN 0 ELSE CHOOSE j \in S : \A k \in S : k <= j

\* the last record with path p
LastOfPath(p) ==
    LET S == {j \in Records : PathOf(j) = p}
    IN  IF S = {} THEN 0 ELSE CHOOSE j \in S : \A k \in S : k <= j

C10_SkipExistingKeepsFiles ==
    [][ no_overwrite =>
          /\ \A p \in DOMAIN fs : p \in DOMAIN fs' /\ fs'[p] = fs[p]
          /\ \A p \in DOMAIN fs0 : p \in DOMAIN fs' /\ fs'[p] = fs0[p]
          /\ \A p \in AllPaths : writes'[p] <= 1
          /\ save_skips' = 0
          /\ (pc = "generate" /\ requests' # requests) => PathOf(i) \notin DOMAIN fs
          /\ \A j \in DOMAIN outcome' :
                outcome'[j] = "skipped" => requests'[j] = 0
      ]_vars

\* a --no-overwrite run has ended with a record written and a later record
\* of the same path skipped, beside an old file that is as it was
C10_Witness ==
    /\ pc = "done"
    /\ no_overwrite
    /\ \E j, k \in Records :
          /\ j < k /\ PathOf(j) = PathOf(k)
          /\ outcome[j] = "written" /\ outcome[k] = "skipped"
    /\ \E p \in DOMAIN fs0 : fs[p] = OldDoc

--------------------------------------------------------------------------
(* save_review called on its own.                                          *)

\* main() is not running
NoRun ==
    /\ dry_run = FALSE
    /\ no_overwrite = FALSE
    /\ env_key = FALSE
    /\ typed_key = FALSE
    /\ input_exists = FALSE
    /\ input_books = <<>>
    /\ api_key = FALSE
    /\ books = <<>>
    /\ i = 0
    /\ pc = "none"
    /\ review = PyNone
    /\ exc = "none"
    /\ outcome = <<>>
    /\ requests = <<>>
    /\ slept = <<>>
    /\ returned = <<>>
    /\ last_response = NoResponse
    /\ save_skips = 0

runVars == <<dry_run, no_overwrite, env_key, typed_key, input_exists, input_books,
             api_key, books, i, pc, review, exc, outcome, requests, slept,
             returned, last_response, save_skips>>

\* the review texts a caller hands to save_review
ReviewTexts == {<<"o", "k">>, <<"n", "o">>}

\* the overwrite argument of a call: left out, or given
OverwriteArgs == {[given |-> FALSE]} \cup {[given |-> TRUE, v |-> b] : b \in BOOLEAN}

\* a mutant: the default of overwrite is False
OverwriteOf_default_false(arg) == IF arg.given THEN arg.v ELSE FALSE

\* the value of the parameter overwrite=True
OverwriteOf(arg) == IF arg.given THEN arg.v ELSE TRUE

InitWriter ==
    /\ NoRun
    /\ fs \in StartFiles
    /\ dir_exists \in (IF DOMAIN fs = {} THEN BOOLEAN ELSE {TRUE})
    /\ fs0 = fs
    /\ dir0 = dir_exists
    /\ writes = [p \in AllPaths |-> 0]
    /\ call = NoCall

\* one call save_review(book, review, output_dir[, overwrite])
SaveReviewCall ==
    /\ \E t \in Titles, text \in ReviewTexts, arg \in OverwriteArgs :
          LET w == save_review(Book(t), text, OutputDir, OverwriteOf(arg), fs)
          IN  /\ fs' = w.files
              /\ dir_exists' = TRUE
              /\ writes' = IF w.skip THEN writes
                           ELSE [writes EXCEPT ![w.path] = IF @ < MaxWrites THEN @ + 1 ELSE @]
              /\ call' = [fn |-> "save_review", book |-> Book(t), text |-> text,
                          arg |-> arg, before |-> fs, path |-> w.path,
                          skip |-> w.skip]
    /\ UNCHANGED <<runVars, fs0, dir0>>

NextWriter == SaveReviewCall

SpecWriter == InitWriter /\ [][NextWriter]_vars

\* the last call was save_review for a path that held a file
CalledOnExisting == call.fn = "save_review" /\ call.path \in DOMAIN call.before

\* C2: save_review for a path that holds a file: with overwrite False the
\* files are as before and the call is a skip that returns the path; with
\* overwrite True or left out the file holds exactly the new document.
C2_SkipPolicy ==
    CalledOnExisting =>
        /\ call.path = get_review_path(call.book, OutputDir)
        /\ IF call.arg.given /\ ~call.arg.v
           THEN /\ call.skip
                /\ fs = call.before
           ELSE /\ ~call.skip
                /\ fs[call.path] = Document(call.book, call.text)
                /\ \A p \in DOMAIN call.before : p # call.path => fs[p] = call.before[p]

\* a skip of a file that an earlier call with overwrite left out had put
\* in the place of an old file
C2_Witness ==
    /\ CalledOnExisting
    /\ call.arg.given /\ ~call.arg.v
    /\ call.skip
    /\ call.path \in DOMAIN fs0
    /\ fs[call.path] # fs0[call.path]
    /\ fs[call.path] # Document(call.book, call.text)
    /\ writes[call.path] = 1

--------------------------------------------------------------------------
(* remove_think_tags called on its own.                                    *)

\* the pieces a response text is put together from
Fragments == {<<"x">>, OpenTag, CloseTag, <<"<", "t", "h">>, <<"i", "n", "k", ">">>}

\* the response texts
Texts == {Concat(fr) : fr \in SeqsUpTo(Fragments, MaxFrags)}

\* no file is involved
NoFiles ==
    /\ fs = <<>>
    /\ dir_exists = FALSE
    /\ fs0 = <<>>
    /\ dir0 = FALSE
    /\ writes = [p \in AllPaths |-> 0]

InitText ==
    /\ NoRun
    /\ NoFiles
    /\ call \in {[fn |-> "remove_think_tags", content |-> t, out |-> <<>>] : t \in Texts}

\* remove_think_tags on the text, then on what the call before returned
StripCall ==
    /\ call.fn = "remove_think_tags"
    /\ Len(call.out) < 2
    /\ LET arg == IF call.out = <<>> THEN call.content ELSE call.out[Len(call.out)]
       IN  call' = [call EXCEPT !.out = Append(@, remove_think_tags(PyStr(arg)).v.s)]
    /\ UNCHANGED <<runVars, fs, dir_exists, fs0, dir0, writes>>

NextText == StripCall

SpecText == InitText /\ [][NextText]_vars

\* text holds an open marker with a close marker somewhere after it
HasPair(text) ==
    \E a \in 1..(Len(text) - Len(OpenTag) + 1) :
        /\ SubSeq(text, a, a + Len(OpenTag) - 1) = OpenTag
        /\ FirstAt(text, CloseTag, a + Len(OpenTag)) # 0

\* C7: remove_think_tags is idempotent on every text, nested, adjacent,
\* unbalanced and overlapping markers included, and returns a text without
\* a complete open/close pair as it is.
C7_StripIdempotent ==
    call.fn = "remove_think_tags" =>
        /\ Len(call.out) >= 1 => (~HasPair(call.content) => call.out[1] = call.content)
        /\ Len(call.out) = 2 => call.out[2] = call.out[1]

--------------------------------------------------------------------------
(* parse_book_data.                                                        *)

\* what \s matches
Whitespace == {" ", "\t", "\n", "\r", "\f"}

\* what \d matches
Digits == {"0", "1", "2", "3", "4", "5", "6", "7", "8", "9"}

\* the (.*?) cells of table_pattern after the (\d+) cell
CellsAfterRank == 8

\* the end of the longest run of characters of S that starts at p
RunEnd(text, p, S) ==
    Min({q \in p..(Len(text) + 1) : q = Len(text) + 1 \/ text[q] \notin S})

\* text[p] is a pipe
PipeAt(text, p) == p <= Len(text) /\ text[p] = "|"

\* the place of the first newline at or after p, or just past the text
LineEnd(text, p) ==
    Min({q \in p..(Len(text) + 1) : q = Len(text) + 1 \/ text[q] = "\n"})

RECURSIVE MatchCells(_, _, _)
RECURSIVE MatchCellFrom(_, _, _, _, _)
\* n times \s*(.*?)\s*\| from p on, as the backtracking matcher finds it:
\* \s* takes all the whitespace and the lazy group, which starts there,
\* is tried with each end in turn, the shortest first
MatchCells(text, p, n) ==
    IF n = 0 THEN [ok |-> TRUE, groups |-> <<>>, end |-> p]
    ELSE LET from == RunEnd(text, p, Whitespace)
         IN  MatchCellFrom(text, from, from, LineEnd(text, from), n)

\* the group from..e-1 and the rest of the pattern after it, or failing
\* that the group with a later end; the dot matches no newline, so the
\* group ends at stop at the latest
MatchCellFrom(text, from, e, stop, n) ==
    IF e > stop THEN [ok |-> FALSE]
    ELSE LET bar == RunEnd(text, e, Whitespace)
             rest == IF PipeAt(text, bar) THEN MatchCells(text, bar + 1, n - 1)
                                          ELSE [ok |-> FALSE]
         IN  IF rest.ok
             THEN [ok |-> TRUE,
                   groups |-> <<SubSeq(text, from, e - 1)>> \o rest.groups,
                   end |-> rest.end]
             ELSE MatchCellFrom(text, from, e + 1, stop, n)

\* table_pattern matched at p: \|\s*(\d+)\s*\| and the eight cells
MatchRow(text, p) ==
    IF ~PipeAt(text, p) THEN [ok |-> FALSE]
    ELSE LET from == RunEnd(text, p + 1, Whitespace)
             to == RunEnd(text, from, Digits)
             bar == RunEnd(text, to, Whitespace)
         IN  IF to = from \/ ~PipeAt(text, bar) THEN [ok |-> FALSE]
             ELSE LET rest == MatchCells(text, bar + 1, CellsAfterRank)
                  IN  IF ~rest.ok THEN [ok |-> FALSE]
                      ELSE [ok |-> TRUE,
                            groups |-> <<SubSeq(text, from, to - 1)>> \o rest.groups,
                            end |-> rest.end]

RECURSIVE FindAll(_, _)
\* re.findall(table_pattern, content) from p on: the matches from left to
\* right, none overlapping another
FindAll(text, p) ==
    IF p > Len(text) THEN <<>>
    ELSE LET m == MatchRow(text, p)
         IN  IF m.ok THEN <<m.groups>> \o FindAll(text, m.end)
             ELSE FindAll(text, p + 1)

\* str.isdigit()
IsDigit(s) == s # <<>> /\ \A n \in 1..Len(s) : s[n] \in Digits

\* str.strip()
Strip(s) ==
    LET keep == {n \in 1..Len(s) : s[n] \notin Whitespace}
    IN  IF keep = {} THEN <<>>
        ELSE SubSeq(s, Min(keep), CHOOSE n \in keep : \A m \in keep : m <= n)

\* the record of lines 85-95
BookOf(row) ==
    [rank |-> row[1], title |-> Strip(row[2]), author |-> Strip(row[3]),
     original_title |-> Strip(row[4]), year |-> Strip(row[5]),
     translator |-> Strip(row[6]), publisher |-> Strip(row[7]),
     rating |-> Strip(row[8]), comment |-> Strip(row[9])]

RECURSIVE BooksOf(_)
\* lines 81-96: a record for each row whose first group is all digits
BooksOf(rows) ==
    IF rows = <<>> THEN <<>>
    ELSE (IF IsDigit(Head(rows)[1]) THEN <<BookOf(Head(rows))>> ELSE <<>>)
             \o BooksOf(Tail(rows))

\* parse_book_data on the content of the file
parse_book_data(content) == BooksOf(FindAll(content, 1))

--------------------------------------------------------------------------
(* parse_book_data called on documents made of table lines.                *)

\* a line of nine cells whose first cell is a number
Row9 == <<<<"1">>, <<"b">>, <<"c">>, <<"d">>, <<"e">>, <<"f">>, <<"g">>, <<"h">>, <<"i">>>>

\* nine cells with blanks around them, the rank of two digits, a cell empty
Row9Spaced ==
    <<<<" ", "4", "2", " ">>, <<" ", "b", " ", "b", " ">>, <<" ", "c">>, <<"d", " ">>,
      <<>>, <<"f">>, <<"g">>, <<" ", "8", ".", "5", " ">>, <<" ", "i", " ">>>>

\* the header line of the table
Row9Header == <<<<"n">>, <<"b">>, <<"c">>, <<"d">>, <<"e">>, <<"f">>, <<"g">>, <<"h">>, <<"i">>>>

\* ten cells
Row10 == Row9 \o <<<<"j">>>>

\* eight cells
Row8 == SubSeq(Row9, 1, 8)

\* four cells
Row4 == SubSeq(Row9, 1, 4)

\* the lines a document is made of; <<>> is an empty line
Lines == {Row9, Row9Spaced, Row9Header, Row10, Row8, Row4, <<>>}

RECURSIVE RenderLine(_)
\* the text of a line: a pipe before each cell and one at the end
RenderLine(cells) ==
    IF cells = <<>> THEN <<>>
    ELSE <<"|">> \o Head(cells)
             \o (IF Len(cells) = 1 THEN <<"|">> ELSE RenderLine(Tail(cells)))

RECURSIVE RenderDoc(_)
\* the text of a document: its lines, each ended by a newline
RenderDoc(lines) ==
    IF lines = <<>> THEN <<>>
    ELSE RenderLine(Head(lines)) \o <<"\n">> \o RenderDoc(Tail(lines))

InitParse ==
    /\ NoRun
    /\ NoFiles
    /\ call \in {[fn |-> "parse_book_data", lines |-> ls, done |-> FALSE, books |-> <<>>] :
                    ls \in SeqsUpTo(Lines, MaxLines)}

\* parse_book_data on the document
ParseCall ==
    /\ call.fn = "parse_book_data"
    /\ ~call.done
    /\ call' = [call EXCEPT !.done = TRUE,
                            !.books = parse_book_data(RenderDoc(call.lines))]
    /\ UNCHANGED <<runVars, fs, dir_exists, fs0, dir0, writes>>

NextParse == ParseCall

SpecParse == InitParse /\ [][NextParse]_vars

\* a line is a row of the table: nine cells, the first all digits once
\* trimmed
IsBookRow(cells) == Len(cells) = 9 /\ IsDigit(Strip(cells[1]))

\* the record of a row: its nine cells in order, trimmed
RecordOfRow(cells) ==
    [rank |-> Strip(cells[1]), title |-> Strip(cells[2]), author |-> Strip(cells[3]),
     original_title |-> Strip(cells[4]), year |-> Strip(cells[5]),
     translator |-> Strip(cells[6]), publisher |-> Strip(cells[7]),
     rating |-> Strip(cells[8]), comment |-> Strip(cells[9])]

RECURSIVE RecordsOfLines(_)
\* one record for each row of the table, in the order of the lines
RecordsOfLines(lines) ==
    IF lines = <<>> THEN <<>>
    ELSE (IF IsBookRow(Head(lines)) THEN <<RecordOfRow(Head(lines))>> ELSE <<>>)
             \o RecordsOfLines(Tail(lines))

\* C8: parse_book_data returns, in document order, exactly one record for
\* each row of nine cells whose first cell is all digits, the cells
\* trimmed, and none for any other line or for cells of several lines.
C8_OneRecordPerRow ==
    (call.fn = "parse_book_data" /\ call.done) =>
        call.books = RecordsOfLines(call.lines)

==========================================================================
